---- MODULE Spec2Model ----
(***************************************************************************)
(* Bearer-token authentication gate of the Rust API service:               *)
(*   - jwt.rs: the JWKS cache (JWKS_CACHE, populate_jwks_cache), the       *)
(*     base64url decoder and verify_keycloak_jwt;                          *)
(*   - middleware/auth.rs: auth_middleware;                                *)
(*   - main.rs: process startup.                                           *)
(* Four specifications share the module:                                   *)
(*   Spec       startup and the key cache under concurrent callers;        *)
(*   SpecAuth   one request through auth_middleware after startup;         *)
(*   SpecIngest refreshes of the key cache one after another;              *)
(*   SpecDecode base64url_decode applied to encoded byte strings.          *)
(***************************************************************************)
EXTENDS Integers, Sequences, FiniteSets, TLC

VARIABLES
    mainPc,      \* position of main() (main.rs)
    startupRes,  \* what populate_jwks_cache returned to main: "none", "ok", "err"
    cache,       \* JWKS_CACHE: function from kid (string) to key data (string)
    wpc,         \* per thread: position inside populate_jwks_cache
    wdoc,        \* per thread: the value fetch_jwks returned
    widx,        \* per thread: how many descriptors of keys the loop has consumed
    committed,   \* cache contents at the last release of the write lock
    observed,    \* last lookup: the map a reader saw, with the sets around it
    request,     \* the inbound request handed to auth_middleware
    now,         \* the clock reading verify_keycloak_jwt takes
    outcome,     \* what auth_middleware returned for the request
    verdict,     \* what verify_keycloak_jwt returned for the request's token
    b64in,       \* bytes whose encoding is handed to base64url_decode
    b64out,      \* what base64url_decode returned
    lastFetch    \* the latest value fetch_jwks returned Ok with, if any, and
                 \* what the latest call of populate_jwks_cache returned

vars == <<mainPc, startupRes, cache, wpc, wdoc, widx, committed, observed,
          request, now, outcome, verdict, b64in, b64out, lastFetch>>

cacheVars == <<mainPc, startupRes, cache, wpc, wdoc, widx, committed, observed>>
authVars == <<request, now, outcome, verdict>>
decodeVars == <<b64in, b64out>>
ingestVars == <<lastFetch>>

-----------------------------------------------------------------------------
(* Bounds of the model. *)

\* longest byte string handed to the encoder/decoder round trip
MaxBytes == 3
\* longest keys array of a fetched JWKS document
MaxKeys == 2
\* largest clock reading and (plus one) largest exp value of a token
MaxNow == 2

-----------------------------------------------------------------------------
(* base64url_decode (jwt.rs 59-106).  Text is a sequence of one-character  *)
(* strings; bytes are numbers 0..255.                                      *)

\* jwt.rs 72: the standard alphabet the decoder searches
chars ==
    << "A","B","C","D","E","F","G","H","I","J","K","L","M","N","O","P",
       "Q","R","S","T","U","V","W","X","Y","Z","a","b","c","d","e","f",
       "g","h","i","j","k","l","m","n","o","p","q","r","s","t","u","v",
       "w","x","y","z","0","1","2","3","4","5","6","7","8","9","+","/" >>

\* chars.find(c): zero-based position of c, or -1 for None
Find(c) ==
    IF \E p \in 1..Len(chars) : chars[p] = c
    THEN (CHOOSE p \in 1..Len(chars) : chars[p] = c) - 1
    ELSE -1

\* jwt.rs 64-66: push '=' until the length is a multiple of 4
RECURSIVE AddPadding(_)
AddPadding(input) ==
    IF Len(input) % 4 # 0 THEN AddPadding(Append(input, "=")) ELSE input

\* jwt.rs 69: '-' -> '+', '_' -> '/'
ReplaceUrlSafe(input) ==
    [p \in 1..Len(input) |->
        IF input[p] = "-" THEN "+" ELSE IF input[p] = "_" THEN "/" ELSE input[p]]

\* jwt.rs 80-89: the inner loop over one group starting at zero-based i;
\* returns the accumulated val and the j at which the loop stopped.  val is a
\* u32 and takes at most four 6-bit shifts per group, so it stays below 2^24
\* and (val << 6) | pos is val * 64 + pos without wrap-around.
RECURSIVE GroupLoop(_, _, _, _)
GroupLoop(input, i, j, val) ==
    IF j < 4 /\ i + j < Len(input)
    THEN LET c == input[i + j + 1] IN
         IF c = "="
         THEN [val |-> val, j |-> j]
         ELSE LET pos == Find(c)
                  v2 == IF pos >= 0 THEN (val * 64) + pos ELSE val
              IN GroupLoop(input, i, j + 1, v2)
    ELSE [val |-> val, j |-> j]

\* jwt.rs 92-100: the bytes pushed for one group (casts to u8 keep the low byte)
GroupBytes(g) ==
    (IF g.j >= 2 THEN << (g.val \div 65536) % 256 >> ELSE << >>)
    \o (IF g.j >= 3 THEN << (g.val \div 256) % 256 >> ELSE << >>)
    \o (IF g.j >= 4 THEN << g.val % 256 >> ELSE << >>)

\* jwt.rs 76-103: the outer loop, i advancing by 4
RECURSIVE DecodeLoop(_, _, _)
DecodeLoop(input, i, result) ==
    IF i < Len(input)
    THEN DecodeLoop(input, i + 4, result \o GroupBytes(GroupLoop(input, i, 0, 0)))
    ELSE result

base64url_decode(input) ==
    DecodeLoop(ReplaceUrlSafe(AddPadding(input)), 0, << >>)

-----------------------------------------------------------------------------
(* Reference encoder: RFC 4648 section 5, base64url without padding.  It   *)
(* is the encoding a token issuer applies; the repository only decodes.    *)

UrlAlphabet ==
    [p \in 1..64 |-> IF p = 63 THEN "-" ELSE IF p = 64 THEN "_" ELSE chars[p]]

RECURSIVE Rfc4648Encode(_)
Rfc4648Encode(bytes) ==
    IF Len(bytes) = 0 THEN << >>
    ELSE IF Len(bytes) = 1
    THEN << UrlAlphabet[(bytes[1] \div 4) + 1],
            UrlAlphabet[((bytes[1] % 4) * 16) + 1] >>
    ELSE IF Len(bytes) = 2
    THEN << UrlAlphabet[(bytes[1] \div 4) + 1],
            UrlAlphabet[((bytes[1] % 4) * 16) + (bytes[2] \div 16) + 1],
            UrlAlphabet[((bytes[2] % 16) * 4) + 1] >>
    ELSE << UrlAlphabet[(bytes[1] \div 4) + 1],
            UrlAlphabet[((bytes[1] % 4) * 16) + (bytes[2] \div 16) + 1],
            UrlAlphabet[((bytes[2] % 16) * 4) + (bytes[3] \div 64) + 1],
            UrlAlphabet[(bytes[3] % 64) + 1] >>
         \o Rfc4648Encode(SubSeq(bytes, 4, Len(bytes)))

\* byte values the round trip is tried on: NUL, '"', '{', '}', and two bytes
\* whose encodings use the URL-safe characters '-' and '_'
ByteSamples == {0, 34, 123, 125, 251, 255}

RECURSIVE SeqsUpTo(_, _)
SeqsUpTo(S, n) ==
    IF n = 0 THEN { << >> }
    ELSE LET shorter == SeqsUpTo(S, n - 1)
         IN shorter \cup { Append(s, x) : s \in { q \in shorter : Len(q) = n - 1 }, x \in S }

-----------------------------------------------------------------------------
(* JSON values (serde_json::Value) as far as the code inspects them: a     *)
(* member is absent, a string, a number or an array of strings.            *)

JAbsent == [t |-> "absent", s |-> "", n |-> 0, a |-> << >>]
JStr(x) == [t |-> "str", s |-> x, n |-> 0, a |-> << >>]
JNum(x) == [t |-> "num", s |-> "", n |-> x, a |-> << >>]
JArr(x) == [t |-> "arr", s |-> "", n |-> 0, a |-> x]

\* Value::get(name) is Some
IsSome(v) == v.t # "absent"
\* .and_then(|x| x.as_str()) is Some
IsSomeStr(v) == v.t = "str"
\* .and_then(|x| x.as_u64()) is Some
IsSomeU64(v) == v.t = "num" /\ v.n >= 0
\* .as_str().unwrap_or_default()
StrOrDefault(v) == IF v.t = "str" THEN v.s ELSE ""
\* .as_u64().unwrap_or(0)
U64OrZero(v) == IF v.t = "num" /\ v.n >= 0 THEN v.n ELSE 0

-----------------------------------------------------------------------------
(* The key cache and populate_jwks_cache (jwt.rs 21-57).                   *)

\* JWKS_CACHE is a HashMap<String, String>: a set of (kid, key) entries with
\* at most one entry per kid
EmptyCache == { }

\* HashMap::insert: replaces the entry of the same key
MapInsert(m, k, v) == { x \in m : x.kid # k } \cup { [kid |-> k, key |-> v] }

\* key descriptors a JWKS document may list
Descriptor(kty, kid, n, e) == [kty |-> kty, kid |-> kid, n |-> n, e |-> e]
Descriptors ==
    { Descriptor(JStr("RSA"), JStr("k1"), JStr("n1"), JStr("AQAB")),
      Descriptor(JStr("RSA"), JStr("k2"), JStr("n2"), JStr("AQAB")),
      Descriptor(JStr("EC"), JStr("k3"), JAbsent, JAbsent) }

\* what fetch_jwks returns: Err, or Ok(document); the document has a "keys"
\* array or not
FetchErr(kind) == [ok |-> FALSE, err |-> kind, hasKeys |-> FALSE, keys |-> << >>]
FetchOk(hasKeys, keys) == [ok |-> TRUE, err |-> "", hasKeys |-> hasKeys, keys |-> keys]
FetchResults ==
    { FetchErr("network"), FetchErr("status"), FetchErr("json") }
    \cup { FetchOk(FALSE, << >>) }
    \cup { FetchOk(TRUE, ks) : ks \in SeqsUpTo(Descriptors, MaxKeys) }

\* the value of a thread's `jwks` while it is outside populate_jwks_cache
NoDoc == FetchOk(FALSE, << >>)

\* no fetch has returned Ok yet
NoFetch == [any |-> FALSE, doc |-> NoDoc, returned |-> "none"]

\* jwt.rs 41-52: the loop body for one descriptor k
InsertDescriptor(m, k) ==
    IF IsSome(k.kty) /\ IsSome(k.kid)
       /\ k.kty.t = "str" /\ k.kty.s = "RSA"
       /\ IsSome(k.n) /\ IsSome(k.e)
    THEN MapInsert(m, StrOrDefault(k.kid),
                   StrOrDefault(k.n) \o ":" \o StrOrDefault(k.e))
    ELSE m

\* jwt.rs 39: jwks.get("keys").and_then(|k| k.as_array()), as the list looped over
KeysOf(doc) == IF doc.hasKeys THEN doc.keys ELSE << >>

\* jwt.rs 37-54 run to completion: clear, then the loop over keys
RECURSIVE IngestFrom(_, _, _)
IngestFrom(m, keys, i) ==
    IF i > Len(keys) THEN m ELSE IngestFrom(InsertDescriptor(m, keys[i]), keys, i + 1)

Ingest(doc) == IngestFrom(EmptyCache, KeysOf(doc), 1)

\* threads that may call into jwt.rs: main() during startup, and the
\* server's worker threads once it serves
Workers == {"w1", "w2"}
Threads == {"main"} \cup Workers

\* jwt.rs 36-56: the write guard `cache` lives from JWKS_CACHE.write() to
\* the end of the function
HoldsWriteLockNever(t) == FALSE

HoldsWriteLock(t) == wpc[t] \in {"locked", "loop"}

\* main.rs 56-59: `if let Err(e)` prints a warning and main goes on
OnPopulateErrExit == "exited"

OnPopulateErr == "routes"

\* a thread may enter populate_jwks_cache: main at its populate step, a
\* worker while the server runs
MayCall(t) ==
    IF t = "main" THEN mainPc = "populate" ELSE mainPc = "serving"

\* jwt.rs 35 (and 28-31): fetch_jwks; `?` returns the error to the caller
\* before the cache is touched
Fetch(t) ==
    /\ MayCall(t)
    /\ wpc[t] = "idle"
    /\ \E r \in FetchResults :
         IF r.ok
         THEN /\ wpc' = [wpc EXCEPT ![t] = "fetched"]
              /\ wdoc' = [wdoc EXCEPT ![t] = r]
              /\ UNCHANGED <<mainPc, startupRes>>
         ELSE /\ UNCHANGED <<wpc, wdoc>>
              /\ IF t = "main"
                 THEN /\ startupRes' = "err"
                      /\ mainPc' = OnPopulateErr
                 ELSE UNCHANGED <<mainPc, startupRes>>
    /\ UNCHANGED <<cache, widx, committed, observed, authVars, decodeVars, ingestVars>>

\* jwt.rs 36: JWKS_CACHE.write() blocks while another guard is held
AcquireWrite(t) ==
    /\ wpc[t] = "fetched"
    /\ \A u \in Threads : ~HoldsWriteLock(u)
    /\ wpc' = [wpc EXCEPT ![t] = "locked"]
    /\ UNCHANGED <<mainPc, startupRes, cache, wdoc, widx, committed, observed,
                   authVars, decodeVars, ingestVars>>

\* jwt.rs 37: cache.clear()
Clear(t) ==
    /\ wpc[t] = "locked"
    /\ cache' = EmptyCache
    /\ wpc' = [wpc EXCEPT ![t] = "loop"]
    /\ widx' = [widx EXCEPT ![t] = 0]
    /\ UNCHANGED <<mainPc, startupRes, wdoc, committed, observed, authVars, decodeVars, ingestVars>>

\* jwt.rs 40-53: one iteration of the loop over keys
InsertNext(t) ==
    /\ wpc[t] = "loop"
    /\ widx[t] < Len(KeysOf(wdoc[t]))
    /\ cache' = InsertDescriptor(cache, KeysOf(wdoc[t])[widx[t] + 1])
    /\ widx' = [widx EXCEPT ![t] = widx[t] + 1]
    /\ UNCHANGED <<mainPc, startupRes, wpc, wdoc, committed, observed, authVars, decodeVars, ingestVars>>

\* jwt.rs 55-57: Ok(()) is returned and the write guard is dropped
Return(t) ==
    /\ wpc[t] = "loop"
    /\ widx[t] = Len(KeysOf(wdoc[t]))
    /\ wpc' = [wpc EXCEPT ![t] = "idle"]
    /\ wdoc' = [wdoc EXCEPT ![t] = NoDoc]
    /\ widx' = [widx EXCEPT ![t] = 0]
    /\ committed' = cache
    /\ IF t = "main"
       THEN startupRes' = "ok" /\ mainPc' = "routes"
       ELSE UNCHANGED <<mainPc, startupRes>>
    /\ UNCHANGED <<cache, observed, authVars, decodeVars, ingestVars>>

\* the complete key sets around a lookup: the set left by the last completed
\* refresh and, for a refresh that is past JWKS_CACHE.write(), the set it
\* leaves when it returns
SetsAround ==
    {committed}
    \cup { Ingest(wdoc[u]) : u \in { x \in Threads : wpc[x] \in {"locked", "loop"} } }

\* a reader of JWKS_CACHE: JWKS_CACHE.read() blocks while the write guard is
\* held; the reader then sees the map as it is
Lookup(t) ==
    /\ mainPc = "serving"
    /\ wpc[t] = "idle"
    /\ \A u \in Threads : ~HoldsWriteLock(u)
    /\ observed' = [seen |-> cache,
                    complete |-> cache \in SetsAround,
                    refreshing |-> \E u \in Threads : wpc[u] # "idle"]
    /\ UNCHANGED <<mainPc, startupRes, cache, wpc, wdoc, widx, committed, authVars, decodeVars, ingestVars>>

-----------------------------------------------------------------------------
(* Tokens.  A token is the sequence of its dot-separated segments.  A      *)
(* segment is empty text, or the encoding of a JSON text: `json` is the    *)
(* object that text denotes and `tail` holds the last (length mod 3) bytes *)
(* of the text, the bytes of the final, incomplete base64 group.           *)

JObject(alg, kid, iss, aud, exp, sub, pu, iat, azp, scope) ==
    [alg |-> alg, kid |-> kid, iss |-> iss, aud |-> aud, exp |-> exp, sub |-> sub,
     preferred_username |-> pu, iat |-> iat, azp |-> azp, scope |-> scope]

NoObject ==
    JObject(JAbsent, JAbsent, JAbsent, JAbsent, JAbsent, JAbsent, JAbsent,
            JAbsent, JAbsent, JAbsent)

Segment(tail, json) == [empty |-> FALSE, tail |-> tail, json |-> json]
EmptySegment == [empty |-> TRUE, tail |-> << >>, json |-> NoObject]
\* a signature segment: text that verify_keycloak_jwt never decodes
SigSegment == Segment(<< >>, NoObject)

\* jwt.rs 115-116, 123-124: base64url_decode, then serde_json::from_slice.
\* Whole 4-character groups decode independently of the final group, so the
\* bytes come back intact exactly when the final group does; a damaged final
\* group puts a control byte into the text, which is not JSON.  Empty text
\* decodes to no bytes, which is not JSON either.
ParseSegment(seg) ==
    IF seg.empty
    THEN [ok |-> FALSE, json |-> NoObject]
    ELSE IF base64url_decode(Rfc4648Encode(seg.tail)) = seg.tail
    THEN [ok |-> TRUE, json |-> seg.json]
    ELSE [ok |-> FALSE, json |-> NoObject]

\* config.rs 39-41: realm_issuer_url() for base "https://idp" and realm "demo"
realm_issuer_url == "https://idp" \o "/realms/" \o "demo"
\* config.rs 16: keycloak_client_id
keycloak_client_id == "app"

NoClaims ==
    [sub |-> "", preferred_username |-> "", exp |-> 0, iat |-> 0, aud |-> "",
     iss |-> "", azp |-> "", scope |-> ""]

Err(msg) == [ok |-> FALSE, err |-> msg, claims |-> NoClaims]
Ok(claims) == [ok |-> TRUE, err |-> "", claims |-> claims]

\* jwt.rs 156: the expiry test
IsExpired(exp, t) == exp < t

\* jwt.rs 126-188: the checks on the parsed payload and the Claims built
ValidatePayload(payload, t) ==
    IF ~IsSomeStr(payload.iss) THEN Err("Missing iss in JWT payload")
    ELSE IF payload.iss.s # realm_issuer_url THEN Err("Invalid issuer")
    ELSE IF ~IsSomeStr(payload.aud) THEN Err("Missing aud in JWT payload")
    ELSE IF payload.aud.s # keycloak_client_id THEN Err("Invalid audience")
    ELSE IF ~IsSomeU64(payload.exp) THEN Err("Missing exp in JWT payload")
    ELSE IF IsExpired(payload.exp.n, t) THEN Err("Token expired")
    ELSE Ok([sub |-> StrOrDefault(payload.sub),
             preferred_username |-> StrOrDefault(payload.preferred_username),
             exp |-> payload.exp.n,
             iat |-> U64OrZero(payload.iat),
             aud |-> payload.aud.s,
             iss |-> payload.iss.s,
             azp |-> StrOrDefault(payload.azp),
             scope |-> StrOrDefault(payload.scope)])

\* jwt.rs 108-189; `token` is token.split('.'), t the clock reading of 151-154
verify_keycloak_jwt(token, t) ==
    IF Len(token) # 3 THEN Err("Invalid JWT format")
    ELSE LET header == ParseSegment(token[1])
             payload == ParseSegment(token[2])
         IN IF ~header.ok THEN Err("Invalid header encoding")
            ELSE IF ~IsSomeStr(header.json.kid) THEN Err("Missing kid in JWT header")
            ELSE IF ~payload.ok THEN Err("Invalid payload encoding")
            ELSE ValidatePayload(payload.json, t)

-----------------------------------------------------------------------------
(* auth_middleware (middleware/auth.rs 13-37).                             *)

NoUser == [sub |-> "", preferred_username |-> "", scope |-> ""]
Rejected(why) == [kind |-> "rejected", rejection |-> why, user |-> NoUser]
Authenticated(user) == [kind |-> "ok", rejection |-> "", user |-> user]

\* auth.rs 16: warp::header::<String>("authorization") rejects a request
\* without the header with warp's own missing-header rejection
OnMissingHeader == Rejected("MissingHeader")

\* the request carries no Authorization header, or one whose value is
\* `scheme` followed by the token text
auth_middleware(req, t) ==
    IF ~req.hasAuth THEN OnMissingHeader
    ELSE IF req.scheme # "Bearer " THEN Rejected("Unauthorized")
    ELSE LET r == verify_keycloak_jwt(req.token, t)
         IN IF r.ok
            THEN Authenticated([sub |-> r.claims.sub,
                                preferred_username |-> r.claims.preferred_username,
                                scope |-> r.claims.scope])
            ELSE Rejected("Unauthorized")

-----------------------------------------------------------------------------
(* SpecAuth: one request against a running server.                         *)

\* the last bytes of a JSON text whose length is 0 or 1 modulo 3: none, or '}'
Tails == { << >>, << 125 >> }

HeaderObject(alg, kid) ==
    JObject(alg, kid, JAbsent, JAbsent, JAbsent, JAbsent, JAbsent, JAbsent,
            JAbsent, JAbsent)

HeaderObjects ==
    { HeaderObject(JStr(alg), kid) :
        alg \in {"RS256", "none", "HS256"},
        kid \in {JAbsent, JStr("k1"), JStr("k9")} }

\* which of the optional claims a payload carries: all, none, or all but one
OptionalSets ==
    LET all == {"preferred_username", "iat", "azp", "scope"}
    IN {all, { }} \cup { all \ {c} : c \in all }

PayloadObjects ==
    { JObject(JAbsent, JAbsent, iss, aud, exp, sub,
              IF "preferred_username" \in opt THEN JStr("alice") ELSE JAbsent,
              IF "iat" \in opt THEN JNum(1) ELSE JAbsent,
              IF "azp" \in opt THEN JStr("web") ELSE JAbsent,
              IF "scope" \in opt THEN JStr("openid") ELSE JAbsent) :
        iss \in {JAbsent, JStr(realm_issuer_url), JStr("https://evil/realms/demo")},
        aud \in {JAbsent, JStr("app"), JStr("other"),
                 JArr(<<"app", "account">>), JArr(<<"account">>)},
        exp \in {JAbsent} \cup { JNum(x) : x \in 0..(MaxNow + 1) },
        sub \in {JAbsent, JStr("u1")},
        opt \in OptionalSets }

GoodHeader == Segment(<< >>, HeaderObject(JStr("RS256"), JStr("k1")))
GoodPayload ==
    Segment(<< >>,
            JObject(JAbsent, JAbsent, JStr(realm_issuer_url), JStr("app"),
                    JNum(MaxNow + 1), JStr("u1"), JStr("alice"), JNum(1),
                    JStr("web"), JStr("openid")))

Tokens ==
    \* three segments, header and payload text intact, signature present or empty
    { << Segment(<< >>, h), Segment(<< >>, p), s >> :
        h \in HeaderObjects, p \in PayloadObjects, s \in {SigSegment, EmptySegment} }
    \* three segments with a header or payload of another length, or empty
    \cup { << h, p, SigSegment >> :
             h \in { Segment(tl, GoodHeader.json) : tl \in Tails } \cup {EmptySegment},
             p \in { Segment(tl, GoodPayload.json) : tl \in Tails } \cup {EmptySegment} }
    \* one, two and four segments
    \cup { << GoodHeader >>, << GoodHeader, GoodPayload >>,
           << GoodHeader, GoodPayload, SigSegment, SigSegment >> }

Request(hasAuth, scheme, token) == [hasAuth |-> hasAuth, scheme |-> scheme, token |-> token]

Requests ==
    { Request(TRUE, "Bearer ", tk) : tk \in Tokens }
    \cup { Request(TRUE, sch, << GoodHeader, GoodPayload, SigSegment >>) :
             sch \in {"Basic ", "bearer "} }
    \cup { Request(FALSE, "", << >>) }

\* the key sets a finished populate_jwks_cache can leave, and the empty
\* cache of a server whose startup fetch failed
ServingCaches == {EmptyCache} \cup { Ingest(r) : r \in { x \in FetchResults : x.ok } }

NotAnswered == Rejected("")

InitAuth ==
    /\ mainPc = "serving"
    /\ startupRes \in {"ok", "err"}
    /\ cache \in (IF startupRes = "err" THEN {EmptyCache} ELSE ServingCaches)
    /\ committed = cache
    /\ wpc = [t \in Threads |-> "idle"]
    /\ wdoc = [t \in Threads |-> NoDoc]
    /\ widx = [t \in Threads |-> 0]
    /\ observed = [seen |-> EmptyCache, complete |-> TRUE, refreshing |-> FALSE]
    /\ request \in Requests
    /\ now \in 1..MaxNow
    /\ outcome = [done |-> FALSE, result |-> NotAnswered]
    /\ verdict = [done |-> FALSE, result |-> Err("")]
    /\ b64in = << >> /\ b64out = [done |-> FALSE, bytes |-> << >>]
    /\ lastFetch = NoFetch

\* a request passes through the filter; verdict records what
\* verify_keycloak_jwt returned when the filter reached it
HandleRequest ==
    /\ mainPc = "serving"
    /\ ~outcome.done
    /\ outcome' = [done |-> TRUE, result |-> auth_middleware(request, now)]
    /\ verdict' = IF request.hasAuth /\ request.scheme = "Bearer "
                  THEN [done |-> TRUE, result |-> verify_keycloak_jwt(request.token, now)]
                  ELSE verdict
    /\ UNCHANGED <<request, now, cacheVars, decodeVars, ingestVars>>

NextAuth == HandleRequest

SpecAuth == InitAuth /\ [][NextAuth]_vars

-----------------------------------------------------------------------------
(* main() (main.rs 17-79).                                                 *)

\* main.rs 31-53: a failing database step returns the error from main
DbStep(at, next) ==
    /\ mainPc = at
    /\ \E ok \in BOOLEAN : mainPc' = IF ok THEN next ELSE "exited"
    /\ UNCHANGED <<startupRes, cache, wpc, wdoc, widx, committed, observed,
                   authVars, decodeVars, ingestVars>>

CreatePool == DbStep("create_pool", "run_migrations")
RunMigrations == DbStep("run_migrations", "verify_connection")
VerifyConnection == DbStep("verify_connection", "populate")

\* main.rs 61-76: the routes are built and warp::serve runs
Serve ==
    /\ mainPc = "routes"
    /\ mainPc' = "serving"
    /\ UNCHANGED <<startupRes, cache, wpc, wdoc, widx, committed, observed,
                   authVars, decodeVars, ingestVars>>

Init ==
    /\ mainPc = "create_pool"
    /\ startupRes = "none"
    /\ cache = EmptyCache
    /\ wpc = [t \in Threads |-> "idle"]
    /\ wdoc = [t \in Threads |-> NoDoc]
    /\ widx = [t \in Threads |-> 0]
    /\ committed = EmptyCache
    /\ observed = [seen |-> EmptyCache, complete |-> TRUE, refreshing |-> FALSE]
    /\ request = Request(FALSE, "", << >>) /\ now = 0
    /\ outcome = [done |-> FALSE, result |-> NotAnswered]
    /\ verdict = [done |-> FALSE, result |-> Err("")]
    /\ b64in = << >> /\ b64out = [done |-> FALSE, bytes |-> << >>]
    /\ lastFetch = NoFetch

Next ==
    \/ CreatePool
    \/ RunMigrations
    \/ VerifyConnection
    \/ Serve
    \/ \E t \in Threads : Fetch(t)
    \/ \E t \in Threads : AcquireWrite(t)
    \/ \E t \in Threads : Clear(t)
    \/ \E t \in Threads : InsertNext(t)
    \/ \E t \in Threads : Return(t)
    \/ \E t \in Workers : Lookup(t)

Spec == Init /\ [][Next]_vars

-----------------------------------------------------------------------------
(* SpecIngest: populate_jwks_cache called again and again by one caller,   *)
(* each call running to completion, on documents that also list malformed  *)
(* descriptors.                                                            *)

IngestDescriptors ==
    Descriptors
    \cup { Descriptor(JStr("RSA"), JNum(7), JStr("n4"), JStr("AQAB")),
           Descriptor(JStr("RSA"), JStr("k1"), JAbsent, JStr("AQAB")),
           Descriptor(JStr("RSA"), JStr("k2"), JStr("n2"), JNum(3)),
           Descriptor(JAbsent, JStr("k1"), JStr("n1"), JStr("AQAB")) }

IngestFetchResults ==
    { FetchErr("network"), FetchErr("status"), FetchErr("json") }
    \cup { FetchOk(FALSE, << >>) }
    \cup { FetchOk(TRUE, ks) : ks \in SeqsUpTo(IngestDescriptors, MaxKeys) }

InitIngest ==
    /\ mainPc = "serving"
    /\ startupRes = "err"
    /\ cache = EmptyCache
    /\ committed = EmptyCache
    /\ wpc = [t \in Threads |-> "idle"]
    /\ wdoc = [t \in Threads |-> NoDoc]
    /\ widx = [t \in Threads |-> 0]
    /\ observed = [seen |-> EmptyCache, complete |-> TRUE, refreshing |-> FALSE]
    /\ request = Request(FALSE, "", << >>) /\ now = 0
    /\ outcome = [done |-> FALSE, result |-> NotAnswered]
    /\ verdict = [done |-> FALSE, result |-> Err("")]
    /\ b64in = << >> /\ b64out = [done |-> FALSE, bytes |-> << >>]
    /\ lastFetch = NoFetch

\* jwt.rs 34-57 from call to return, with no other caller in between: Err
\* from fetch_jwks leaves everything as it is; otherwise the cache is
\* cleared and refilled from the document
Refresh ==
    \E r \in IngestFetchResults :
        /\ r.ok
        /\ cache' = Ingest(r)
        /\ committed' = Ingest(r)
        /\ lastFetch' = [any |-> TRUE, doc |-> r, returned |-> "ok"]
        /\ UNCHANGED <<mainPc, startupRes, wpc, wdoc, widx, observed, authVars, decodeVars>>

\* fetch_jwks returned Err: populate_jwks_cache returns it at jwt.rs 35
RefreshFails ==
    \E r \in IngestFetchResults :
        /\ ~r.ok
        /\ lastFetch' = [lastFetch EXCEPT !.returned = r.err]
        /\ UNCHANGED <<cacheVars, authVars, decodeVars>>

NextIngest == Refresh \/ RefreshFails

SpecIngest == InitIngest /\ [][NextIngest]_vars

\* a descriptor is a supported, well-formed key: kty is the string RSA and
\* kid, n and e are strings
WellFormedKey(k) ==
    /\ k.kty.t = "str" /\ k.kty.s = "RSA"
    /\ k.kid.t = "str" /\ k.n.t = "str" /\ k.e.t = "str"

\* the entries a document's well-formed descriptors give: one per kid, from
\* the last descriptor of that kid
WellFormedEntries(doc) ==
    LET keys == KeysOf(doc)
        good == { i \in 1..Len(keys) : WellFormedKey(keys[i]) }
        last == { i \in good : \A j \in good : keys[j].kid.s = keys[i].kid.s => j <= i }
    IN { [kid |-> keys[i].kid.s, key |-> keys[i].n.s \o ":" \o keys[i].e.s] : i \in last }

\* C13: after any sequence of refreshes the cache is exactly the ingestion of
\* the most recent successful fetch: an entry for each supported, well-formed
\* descriptor of that document, none for an unsupported or malformed one,
\* and nothing of an earlier key set.
C13_CacheIsLastIngestion ==
    lastFetch.any => cache = WellFormedEntries(lastFetch.doc)

-----------------------------------------------------------------------------
(* SpecDecode: base64url_decode applied to the encoding of a byte string.  *)

InitDecode ==
    /\ b64in \in SeqsUpTo(ByteSamples, MaxBytes)
    /\ b64out = [done |-> FALSE, bytes |-> << >>]
    /\ lastFetch = NoFetch
    /\ mainPc = "serving" /\ startupRes = "none"
    /\ cache = EmptyCache /\ committed = EmptyCache
    /\ wpc = [t \in Threads |-> "idle"]
    /\ wdoc = [t \in Threads |-> NoDoc]
    /\ widx = [t \in Threads |-> 0]
    /\ observed = [seen |-> EmptyCache, complete |-> TRUE, refreshing |-> FALSE]
    /\ request = Request(FALSE, "", << >>) /\ now = 0
    /\ outcome = [done |-> FALSE, result |-> NotAnswered]
    /\ verdict = [done |-> FALSE, result |-> Err("")]

DecodeEncoded ==
    /\ ~b64out.done
    /\ b64out' = [done |-> TRUE, bytes |-> base64url_decode(Rfc4648Encode(b64in))]
    /\ UNCHANGED <<b64in, cacheVars, authVars, ingestVars>>

NextDecode == DecodeEncoded

SpecDecode == InitDecode /\ [][NextDecode]_vars

-----------------------------------------------------------------------------
(* Properties of the key cache and of startup, checked under Spec.         *)

\* C4: cache swap is atomic: whatever a reader of JWKS_CACHE saw was the
\* complete key set left by the last completed refresh or the complete key
\* set a refresh in progress leaves, never the cleared or partly refilled map.
C4_AtomicSwap == observed.complete

\* a lookup made while another thread was inside populate_jwks_cache, after
\* an earlier refresh had stored keys
C4_Witness ==
    /\ observed.refreshing
    /\ observed.seen # EmptyCache
    /\ \E t \in Workers : wpc[t] = "loop" /\ cache # observed.seen

\* C12: a refresh that obtains no key set (network failure, non-success
\* status, malformed document, a JSON body without a `keys` list) leaves the
\* cache exactly as it was before the call: while a thread is past
\* JWKS_CACHE.write() with a document that has no `keys` list (so that no
\* other thread can write), the cache still holds what the last completed
\* refresh left.
C12_FailedRefreshKeepsCache ==
    \A t \in Threads :
        (wpc[t] \in {"locked", "loop"} /\ ~wdoc[t].hasKeys)
        => cache = committed

\* C7: a failed key-set fetch at startup does not end the process: main goes
\* on to build the routes and serve, and the cache is empty when it does.
C7_StartupSurvivesFetchFailure ==
    startupRes = "err" =>
        /\ mainPc \in {"routes", "serving"}
        /\ (mainPc = "routes" => cache = EmptyCache)

\* the server serves after its startup fetch failed
C7_Witness == startupRes = "err" /\ mainPc = "serving"

-----------------------------------------------------------------------------
(* Properties of token validation, checked under SpecAuth.                 *)

\* the token of the request went through both decoders: three segments whose
\* header and payload parse
Parsed(token) ==
    /\ Len(token) = 3
    /\ ParseSegment(token[1]).ok
    /\ ParseSegment(token[2]).ok

\* the kid the token's header declares is a key of the cache
KidIsCached(token) ==
    /\ Len(token) = 3
    /\ IsSomeStr(token[1].json.kid)
    /\ \E e \in cache : e.kid = token[1].json.kid.s

\* C1: a token whose header kid is not a key of the cache is never accepted,
\* whatever its claims are.
C1_UnknownKidRejected ==
    (verdict.done /\ ~KidIsCached(request.token)) => ~verdict.result.ok

\* C2: a token whose exp is at or before the current time is rejected as
\* expired; only exp strictly after now is accepted.
C2_ExpiredRejected ==
    (/\ verdict.done
     /\ Parsed(request.token)
     /\ request.token[2].json.exp.t = "num"
     /\ request.token[2].json.exp.n <= now)
    => ~verdict.result.ok

\* the signature algorithms the verifier may accept: the provider's
\* asymmetric RSA schemes
AcceptedAlgorithms == {"RS256", "RS384", "RS512"}

\* C3: a token whose header declares an algorithm outside the allow-list
\* ("none", a symmetric algorithm) is rejected, whatever its kid and claims.
C3_AlgorithmAllowList ==
    (/\ verdict.done
     /\ Len(request.token) = 3
     /\ ~(IsSomeStr(request.token[1].json.alg)
          /\ request.token[1].json.alg.s \in AcceptedAlgorithms))
    => ~verdict.result.ok

\* the audience rule: aud equals the expected audience or is a list that
\* contains it
AudienceMatches(aud) ==
    \/ aud.t = "str" /\ aud.s = keycloak_client_id
    \/ aud.t = "arr" /\ \E i \in 1..Len(aud.a) : aud.a[i] = keycloak_client_id

\* the reason of the first failing check in the order issuer, audience,
\* expiry, or "" when all three pass
FirstFailingCheck(payload, t) ==
    IF ~(payload.iss.t = "str" /\ payload.iss.s = realm_issuer_url) THEN "Invalid issuer"
    ELSE IF ~AudienceMatches(payload.aud) THEN "Invalid audience"
    ELSE IF ~(payload.exp.t = "num" /\ payload.exp.n > t) THEN "Token expired"
    ELSE ""

\* C6: for a parsed token that carries iss, aud and exp, a failing claim
\* check rejects the token with the reason of the first check that fails in
\* the order issuer, audience, expiry.
C6_FirstFailingCheckDecides ==
    (/\ verdict.done
     /\ Parsed(request.token)
     /\ IsSomeStr(request.token[1].json.kid)
     /\ IsSome(request.token[2].json.iss)
     /\ IsSome(request.token[2].json.aud)
     /\ IsSome(request.token[2].json.exp)
     /\ FirstFailingCheck(request.token[2].json, now) # "")
    => /\ ~verdict.result.ok
       /\ verdict.result.err = FirstFailingCheck(request.token[2].json, now)

\* C11: the audience check passes when aud is the expected audience as a
\* string or a list containing it: an otherwise valid token with such an aud
\* is accepted, and the invalid-audience reason is given only when neither
\* form matches.
C11_AudienceScalarOrList ==
    (/\ verdict.done
     /\ Parsed(request.token)
     /\ IsSomeStr(request.token[1].json.kid))
    => LET p == request.token[2].json
       IN /\ (/\ p.iss.t = "str" /\ p.iss.s = realm_issuer_url
              /\ AudienceMatches(p.aud)
              /\ p.exp.t = "num" /\ p.exp.n > now
              /\ IsSomeStr(p.sub))
             => verdict.result.ok
          /\ (~verdict.result.ok /\ verdict.result.err = "Invalid audience")
             => ~AudienceMatches(p.aud)

\* C8: every rejection of the gate is the same generic Unauthorized
\* rejection, whatever caused it.
C8_GenericRejection ==
    (outcome.done /\ outcome.result.kind = "rejected")
    => outcome.result = Rejected("Unauthorized")

\* C9: a token with other than three segments, or with an empty segment
\* (an empty signature included), never yields Claims.
C9_ThreeNonEmptySegments ==
    (/\ verdict.done
     /\ \/ Len(request.token) # 3
        \/ \E i \in 1..Len(request.token) : request.token[i].empty)
    => ~verdict.result.ok

\* C10: sub, iss, aud and exp are required: a parsed token lacking one of
\* them is rejected; an accepted token that lacks an optional claim carries
\* the empty string (zero for iat) in its place.
C10_RequiredAndOptionalClaims ==
    (verdict.done /\ Parsed(request.token)) =>
        LET p == request.token[2].json
            c == verdict.result.claims
        IN /\ (\E r \in {p.sub, p.iss, p.aud, p.exp} : ~IsSome(r))
                => ~verdict.result.ok
           /\ verdict.result.ok =>
                /\ (~IsSome(p.preferred_username) => c.preferred_username = "")
                /\ (~IsSome(p.iat) => c.iat = 0)
                /\ (~IsSome(p.azp) => c.azp = "")
                /\ (~IsSome(p.scope) => c.scope = "")

-----------------------------------------------------------------------------
(* Property of the decoder, checked under SpecDecode.                      *)

\* C5: decoding the unpadded base64url encoding of a byte string returns
\* exactly that byte string, whatever its length modulo 3.
C5_RoundTrip == b64out.done => b64out.bytes = b64in

====
